---- MODULE Spec2Model ----
(***************************************************************************)
(* Subscription lifecycle, instance entitlement and trial reconciliation   *)
(* of the n8n SaaS control plane (models/User.js, models/Instance.js,      *)
(* middleware/auth.js, routes/instances.js, routes/api.js,                 *)
(* routes/payments.js, services/trialService.js).                          *)
(*                                                                         *)
(* Time is counted in hours: the 60-minute trial is 1, the 30-day billing  *)
(* period is 720.  Money is counted in cents, an affiliate's earnings in   *)
(* hundredths of a cent (20 % of 3.99 is 0.798).                           *)
(***************************************************************************)
EXTENDS Integers, Sequences, FiniteSets, TLC

\* ---------------------------------------------------------------- bounds
\* The clock runs from 0 to MaxTime.
MaxTime == 2
\* At most MaxInst Instance documents are ever created.
MaxInst == 2
\* At most MaxScans expiry scans run back to back with no other step between.
MaxScans == 2
\* At most MaxPayments payment confirmations are processed.
MaxPayments == 2

\* ------------------------------------------------------ program constants
\* JS null / undefined of a Number or Date path.
Null == -1000
\* PRICING_PLANS.starter.trialDuration: 60 minutes.
StarterTrialDuration == 1
\* PRICING_PLANS.pro.trialDuration: no trial.
ProTrialDuration == 0
\* 30 * 24 * 60 * 60 * 1000 ms.
BillingPeriod == 720
\* parseFloat(amount) >= 9.99 selects pro.
ProThreshold == 999
\* PRICING_PLANS / PAYPAL_CONFIG prices, in cents.
StarterPrice == 399
PaypalProPrice == 999
\* PRICING_PLANS.pro.price and upgradeToPro: 19.99.
ProPrice == 1999
\* processAffiliateCommission: commission = (amount * 20) / 100.
CommissionRate == 20
\* processSuccessfulPayment: maxInstances = plan === 'pro' ? 5 : 1.
PaymentProMaxInstances == 5
\* -1 encodes "unlimited".
Unlimited == -1

Users == {"u1", "u2"}
Names == {"a", "b"}
Plans == {"free", "starter", "pro"}
SubscriptionStatus == {"trial", "active", "expired", "cancelled"}
\* instanceSchema.status enum.
InstanceStatusEnum == {"deploying", "running", "stopped", "error", "deleting"}

\* User.find() returns the users in insertion order.
UserOrder == <<"u1", "u2">>
\* Concurrent request handlers.
Slots == {"r1", "r2"}
\* Transaction ids of the payment processor.
Transactions == {"t1"}
\* referredBy: null, or the id of a user with affiliateStatus 'active'.
NoReferrer == "none"
Referrer == "ref"
\* Custom domains a request may name; customDomain.domain null.
Domains == {"d1"}
NullDomain == "null"
\* Timer periods whose runs of checkExpiredTrials may be in progress.
Periods == {"p1", "p2"}

VARIABLES
  now,           \* the system clock (new Date(), Date.now())
  subscription,  \* User collection: user id -> subscription sub-document
  instances,     \* Instance collection: sequence of documents, _id = index
  req,           \* request handlers in flight: slot -> handler state
  recon,         \* the trial service's expiry scan (position and work lists)
  resp,          \* the HTTP response sent by the last step, if any
  calls,         \* the Gateway calls issued by the last step
  scanLog,       \* disable calls issued by back-to-back scans (history)
  upgraded,      \* users whose plan is pro since an upgrade (history)
  gateway,       \* Deployment Gateway: the instances it holds disabled
  referredBy,    \* User collection: user id -> referredBy
  affiliate,     \* Affiliate collection: the referrer's document
  delivered,     \* payment confirmations processed, in order (history)
  runs           \* the timer's runs of checkExpiredTrials: period -> run

vars == <<now, subscription, instances, req, recon, resp, calls, scanLog,
          upgraded, gateway, referredBy, affiliate, delivered, runs>>

\* ------------------------------------------------- models/User.js methods
\* Variant: the trial is still active at the instant it ends.
isTrialActiveInclusive(s, t) ==
  s.status = "trial" /\ t <= s.trialEndsAt

isTrialActive(s, t) ==
  s.status = "trial" /\ t < s.trialEndsAt

isSubscriptionActive(s, t) ==
  s.status = "active" \/ isTrialActive(s, t)

hasProAccess(s, t) ==
  s.plan = "pro" /\ isSubscriptionActive(s, t)

\* planLimits[plan] || 0
planLimits(plan) ==
  CASE plan = "free" -> 1
    [] plan = "starter" -> 1
    [] plan = "pro" -> Unlimited
    [] OTHER -> 0

\* Variant: the stored value is returned without looking at the status.
getMaxInstancesNoStatus(s, t) ==
  IF s.maxInstances # Null THEN s.maxInstances ELSE planLimits(s.plan)

getMaxInstances(s, t) ==
  IF ~isSubscriptionActive(s, t) THEN 0
  ELSE IF s.maxInstances # Null THEN s.maxInstances
  ELSE planLimits(s.plan)

\* Variant: creation is still allowed at the limit.
canCreateInstanceAtLimit(s, t, instanceCount) ==
  IF ~isSubscriptionActive(s, t) THEN FALSE
  ELSE IF getMaxInstances(s, t) = Unlimited THEN TRUE
  ELSE instanceCount <= getMaxInstances(s, t)

\* instanceCount is Instance.countDocuments({userId, deletedAt: null}).
canCreateInstance(s, t, instanceCount) ==
  IF ~isSubscriptionActive(s, t) THEN FALSE
  ELSE IF getMaxInstances(s, t) = Unlimited THEN TRUE
  ELSE instanceCount < getMaxInstances(s, t)

\* ------------------------------------------------------ Instance queries
InstanceIds == 1..Len(instances)

\* Instance.countDocuments({userId: u, deletedAt: null})
CountLive(u) ==
  Cardinality({i \in InstanceIds :
    instances[i].userId = u /\ instances[i].deletedAt = Null})

\* Variant: every document of the user is counted, soft-deleted ones too.
CountAllDocuments(u) ==
  Cardinality({i \in InstanceIds : instances[i].userId = u})

\* Instance.countDocuments({userId: u, deletedAt: null,
\*                          status: {$nin: ['deleting', 'error']}})
CountLiveNotTerminal(u) ==
  Cardinality({i \in InstanceIds :
    /\ instances[i].userId = u
    /\ instances[i].deletedAt = Null
    /\ instances[i].status \notin {"deleting", "error"}})

\* ------------------------------------------------------------ documents
\* userSchema.subscription defaults of a user registered at time t.
NewSubscription(t) ==
  [plan |-> "starter", status |-> "trial", maxInstances |-> 1,
   price |-> StarterPrice,
   trialEndsAt |-> t + StarterTrialDuration, nextBillingDate |-> Null]

\* instanceSchema.customDomain defaults (the ssl sub-document is left out).
NoDomain == [domain |-> NullDomain, isActive |-> FALSE]

NewInstance(u, n) ==
  [userId |-> u, name |-> n, status |-> "deploying", deletedAt |-> Null,
   customDomain |-> NoDomain]

\* What the entitlement check of a create request saw, kept with the
\* request (history): whether the subscription was active and whether the
\* quota was reached.
NoCheck == [active |-> FALSE, quotaReached |-> TRUE]

Idle == [op |-> "idle", pc |-> "idle", user |-> "u1", name |-> "a", id |-> 0,
         domain |-> NullDomain, checked |-> NoCheck]
\* A run of checkExpiredTrials that is not in progress.
NoRun == [pc |-> "idle", users |-> <<>>, insts |-> <<>>, firedAt |-> Null]
NoScan == [pc |-> "idle", users |-> <<>>, insts |-> <<>>]
NoResp == [kind |-> "none"]
\* scans: scans started since the last other step; disabled: the instances
\* they issued a disable call for, in order; selected, before, succeeded:
\* the users the current scan selected, the User collection it started
\* from, and the instances whose disable call succeeded.
NoScanLog == [scans |-> 0, disabled |-> <<>>, selected |-> {},
              before |-> <<>>, succeeded |-> {}]

\* Instance schema validation of the status path, run by save().
ValidStatus(st) == st \in InstanceStatusEnum

\* Every step that is not part of an expiry scan starts a new history.
Quiet == scanLog' = NoScanLog

\* --------------------------------------------------------------- clock
Tick ==
  /\ now < MaxTime
  /\ now' = now + 1
  /\ resp' = NoResp /\ calls' = {} /\ Quiet
  /\ UNCHANGED <<subscription, instances, req, recon, upgraded>>
  /\ UNCHANGED <<gateway, referredBy, affiliate, delivered>>
  /\ UNCHANGED runs

\* ------------------------------------------ subscription routes (atomic)
\* Variant: every plan is given unlimited capacity.
PlanMaxInstancesUnlimited(plan) == Unlimited

PlanMaxInstances(plan) == IF plan = "pro" THEN Unlimited ELSE 1
PlanTrialDuration(plan) ==
  IF plan = "pro" THEN ProTrialDuration ELSE StarterTrialDuration
PlanPrice(plan) == IF plan = "pro" THEN ProPrice ELSE StarterPrice

\* POST /start-trial
StartTrial(u, plan) ==
  /\ IF /\ isSubscriptionActive(subscription[u], now)
        /\ subscription[u].plan = plan
     THEN /\ resp' = [kind |-> "start-trial", user |-> u, code |-> 400]
          /\ UNCHANGED <<subscription, upgraded>>
     ELSE /\ subscription' = [subscription EXCEPT
               ![u].plan = plan,
               ![u].status = "trial",
               ![u].price = PlanPrice(plan),
               ![u].maxInstances = PlanMaxInstances(plan),
               ![u].trialEndsAt = now + PlanTrialDuration(plan)]
          /\ resp' = [kind |-> "start-trial", user |-> u, code |-> 200]
          /\ upgraded' = IF plan = "pro" THEN upgraded ELSE upgraded \ {u}
  /\ calls' = {} /\ Quiet
  /\ UNCHANGED <<now, instances, req, recon>>
  /\ UNCHANGED <<gateway, referredBy, affiliate, delivered>>
  /\ UNCHANGED runs

\* userSchema.methods.upgradeToPro
upgradeToPro(s) ==
  [s EXCEPT !.plan = "pro", !.maxInstances = Unlimited, !.price = ProPrice]

\* POST /upgrade-to-pro
UpgradeToPro(u) ==
  /\ IF subscription[u].plan = "pro"
     THEN /\ resp' = [kind |-> "upgrade", user |-> u, code |-> 400]
          /\ UNCHANGED <<subscription, upgraded>>
     ELSE /\ subscription' = [subscription EXCEPT ![u] = upgradeToPro(@)]
          /\ resp' = [kind |-> "upgrade", user |-> u, code |-> 200]
          /\ upgraded' = upgraded \cup {u}
  /\ calls' = {} /\ Quiet
  /\ UNCHANGED <<now, instances, req, recon>>
  /\ UNCHANGED <<gateway, referredBy, affiliate, delivered>>
  /\ UNCHANGED runs

\* An Affiliate document as first created: no earnings, no referrals.
\* (pendingEarnings moves with totalEarnings and is left out.)
NoEarnings == [totalEarnings |-> 0, referrals |-> {}]

\* (amount * 20) / 100, in hundredths of a cent for an amount in cents.
Commission(amount) == amount * CommissionRate

\* processAffiliateCommission, for a user with an active referrer: the
\* earnings grow by the commission, the user has a referral entry.
processAffiliateCommission(aff, u, amount) ==
  [aff EXCEPT !.totalEarnings = @ + Commission(amount),
              !.referrals = @ \cup {u}]

\* Variant: the billing date is left as it was.
startPaidSubscriptionKeepsDate(s, t) == [s EXCEPT !.status = "active"]

\* userSchema.methods.startPaidSubscription
startPaidSubscription(s, t) ==
  [s EXCEPT !.status = "active", !.nextBillingDate = t + BillingPeriod]

\* POST /convert-to-paid (every save succeeds)
ConvertToPaid(u) ==
  /\ IF subscription[u].status # "trial"
     THEN /\ resp' = [kind |-> "convert", user |-> u, code |-> 400]
          /\ UNCHANGED <<subscription, affiliate>>
     ELSE /\ subscription' =
               [subscription EXCEPT ![u] = startPaidSubscription(@, now)]
          /\ affiliate' =
               IF referredBy[u] # NoReferrer
               THEN processAffiliateCommission(affiliate, u,
                                               subscription[u].price)
               ELSE affiliate
          /\ resp' = [kind |-> "convert", user |-> u, code |-> 200]
  /\ calls' = {} /\ Quiet
  /\ UNCHANGED <<now, upgraded, instances, req, recon>>
  /\ UNCHANGED <<gateway, referredBy, delivered>>
  /\ UNCHANGED runs

\* A payment confirmation as logged: whose, which transaction, how much,
\* and the status the handler answered with.
Confirmation(u, tx, amount, code) ==
  [user |-> u, tx |-> tx, amount |-> amount, code |-> code]

\* Plan chosen from the amount paid.
PaymentPlan(amount) == IF amount >= ProThreshold THEN "pro" ELSE "starter"

\* maxInstances written by processSuccessfulPayment.
PaymentMaxInstances(plan) ==
  IF plan = "pro" THEN PaymentProMaxInstances ELSE 1

\* Instance.find({userId: u, deletedAt: null, status: 'disabled'})
DisabledInstances(u) ==
  {i \in InstanceIds : /\ instances[i].userId = u
                       /\ instances[i].deletedAt = Null
                       /\ instances[i].status = "disabled"}

\* processSuccessfulPayment, then trialService.enableUserInstances: enabled
\* is the set of disabled instances whose Gateway enable call succeeds.
ProcessPayment(u, tx, amount, enabled) ==
  /\ Len(delivered) < MaxPayments
  /\ enabled \subseteq DisabledInstances(u)
  /\ subscription' = [subscription EXCEPT
       ![u].plan = PaymentPlan(amount),
       ![u].status = "active",
       ![u].price = amount,
       ![u].nextBillingDate = now + BillingPeriod,
       ![u].maxInstances = PaymentMaxInstances(PaymentPlan(amount))]
  /\ instances' = [i \in InstanceIds |->
       IF i \in enabled /\ ValidStatus("running")
       THEN [instances[i] EXCEPT !.status = "running"]
       ELSE instances[i]]
  /\ calls' = {<<"enable", i>> : i \in DisabledInstances(u)}
  /\ resp' = [kind |-> "payment", user |-> u, code |-> 200,
              plan |-> PaymentPlan(amount),
              enabledInstances |-> Cardinality(DisabledInstances(u))]
  /\ gateway' = gateway \ enabled
  /\ delivered' = Append(delivered, Confirmation(u, tx, amount, 200))
  /\ UNCHANGED affiliate
  /\ upgraded' = IF PaymentPlan(amount) = "pro" THEN upgraded
                 ELSE upgraded \ {u}
  /\ Quiet
  /\ UNCHANGED <<now, req, recon>>
  /\ UNCHANGED <<referredBy>>
  /\ UNCHANGED runs

\* POST /webhook/payment.  credited: processAffiliateCommission wrote the
\* commission (it catches its own errors and returns null otherwise), with
\* saves that are not part of the session; saved: user.save({session}) and
\* the commit succeeded, otherwise the transaction is aborted.
WebhookPayment(u, tx, amount, credited, saved) ==
  /\ Len(delivered) < MaxPayments
  /\ affiliate' =
       IF referredBy[u] # NoReferrer /\ credited
       THEN processAffiliateCommission(affiliate, u, amount)
       ELSE affiliate
  /\ subscription' =
       IF saved
       THEN [subscription EXCEPT ![u].nextBillingDate = now + BillingPeriod]
       ELSE subscription
  /\ resp' = [kind |-> "webhook", user |-> u,
              code |-> IF saved THEN 200 ELSE 500]
  /\ delivered' = Append(delivered,
       Confirmation(u, tx, amount, IF saved THEN 200 ELSE 500))
  /\ calls' = {} /\ Quiet
  /\ UNCHANGED <<now, upgraded, instances, req, recon, gateway, referredBy>>
  /\ UNCHANGED runs

\* ----------------------------------------------------- instance requests
\* Variant: the name lookup also matches soft-deleted documents.
NameTakenAnyVariant(u, n) ==
  \E i \in InstanceIds : instances[i].userId = u /\ instances[i].name = n

\* Instance.findOne({userId: u, name: n, deletedAt: null}) finds a document.
NameTaken(u, n) ==
  \E i \in InstanceIds : /\ instances[i].userId = u
                         /\ instances[i].name = n
                         /\ instances[i].deletedAt = Null

\* Instance.findOne({userId: u, name: n, deletedAt: null, _id: {$ne: id}})
NameTakenByOther(u, n, id) ==
  \E i \in InstanceIds \ {id} : /\ instances[i].userId = u
                                /\ instances[i].name = n
                                /\ instances[i].deletedAt = Null

\* Instance.findOne({_id: id, userId: u, deletedAt: null}) finds a document.
Found(u, id) ==
  /\ id \in InstanceIds
  /\ instances[id].userId = u
  /\ instances[id].deletedAt = Null

\* Create requests that passed the limit check and have not inserted yet.
PendingInserts ==
  Cardinality({r \in Slots : req[r].pc \in {"findName", "insert"}})

\* The collection stays within MaxInst documents.
RoomForInsert == Len(instances) + PendingInserts < MaxInst

\* The facts at the time of a create request's entitlement check: the
\* subscription is active (status active, or a trial that has not ended);
\* the quota is reached (a limited maxInstances that the user's instances
\* that are not soft-deleted, or those of them outside deleting and error,
\* have reached).
Checked(u) ==
  LET s == subscription[u]
      max == IF s.maxInstances # Null THEN s.maxInstances
             ELSE planLimits(s.plan)
  IN [active |-> s.status = "active"
                   \/ (s.status = "trial" /\ now < s.trialEndsAt),
      quotaReached |-> /\ max # Unlimited
                       /\ \/ CountLive(u) >= max
                          \/ CountLiveNotTerminal(u) >= max]

\* Variant: the middleware lets every request through.
LimitVerdictOpen(u) == "next"

\* checkInstanceLimit's verdict on req.user: "expired", "limit" or "next".
LimitVerdict(u) ==
  IF ~isSubscriptionActive(subscription[u], now) THEN "expired"
  ELSE IF ~canCreateInstance(subscription[u], now, CountLive(u)) THEN "limit"
  ELSE "next"

\* POST /deploy, middleware checkInstanceLimit (authenticateToken has loaded
\* req.user).
CheckInstanceLimit(r, u, n) ==
  /\ req[r].op = "idle"
  /\ IF LimitVerdict(u) = "expired"
     THEN /\ resp' = [kind |-> "create", user |-> u, code |-> 403,
                      error |-> "expired",
                      subscriptionStatus |-> subscription[u].status]
          /\ UNCHANGED req
     ELSE IF LimitVerdict(u) = "limit"
     THEN /\ resp' = [kind |-> "create", user |-> u, code |-> 403,
                      error |-> "limit",
                      currentCount |-> CountLiveNotTerminal(u),
                      maxAllowed |-> getMaxInstances(subscription[u], now)]
          /\ UNCHANGED req
     ELSE /\ RoomForInsert
          /\ req' = [req EXCEPT ![r] = [Idle EXCEPT
               !.op = "create", !.pc = "findName", !.user = u, !.name = n,
               !.checked = Checked(u)]]
          /\ resp' = NoResp
  /\ calls' = {} /\ Quiet
  /\ UNCHANGED <<now, upgraded, subscription, instances, recon>>
  /\ UNCHANGED <<gateway, referredBy, affiliate, delivered>>
  /\ UNCHANGED runs

\* POST /instances (API key): authenticateApiKey, which admits users with
\* Pro access only, then the canCreateInstance check of the handler.
ApiCheckLimit(r, u, n) ==
  /\ req[r].op = "idle"
  /\ IF ~hasProAccess(subscription[u], now)
     THEN /\ resp' = [kind |-> "create", user |-> u, code |-> 403,
                      error |-> "pro"]
          /\ UNCHANGED req
     ELSE IF ~canCreateInstance(subscription[u], now, CountLive(u))
     THEN /\ resp' = [kind |-> "create", user |-> u, code |-> 403,
                      error |-> "limit",
                      currentCount |-> CountLive(u),
                      maxAllowed |-> getMaxInstances(subscription[u], now)]
          /\ UNCHANGED req
     ELSE /\ RoomForInsert
          /\ req' = [req EXCEPT ![r] = [Idle EXCEPT
               !.op = "create", !.pc = "findName", !.user = u, !.name = n,
               !.checked = Checked(u)]]
          /\ resp' = NoResp
  /\ calls' = {} /\ Quiet
  /\ UNCHANGED <<now, upgraded, subscription, instances, recon>>
  /\ UNCHANGED <<gateway, referredBy, affiliate, delivered>>
  /\ UNCHANGED runs

\* Create: the duplicate-name lookup.
FindName(r) ==
  /\ req[r].pc = "findName"
  /\ IF NameTaken(req[r].user, req[r].name)
     THEN /\ resp' = [kind |-> "create", user |-> req[r].user, code |-> 409]
          /\ req' = [req EXCEPT ![r] = Idle]
     ELSE /\ resp' = NoResp
          /\ req' = [req EXCEPT ![r].pc = "insert"]
  /\ calls' = {} /\ Quiet
  /\ UNCHANGED <<now, upgraded, subscription, instances, recon>>
  /\ UNCHANGED <<gateway, referredBy, affiliate, delivered>>
  /\ UNCHANGED runs

\* Create: new Instance({... status: 'deploying'}).save()
InsertInstance(r) ==
  /\ req[r].pc = "insert"
  /\ instances' = Append(instances, NewInstance(req[r].user, req[r].name))
  /\ req' = [req EXCEPT ![r].pc = "deploy", ![r].id = Len(instances) + 1]
  /\ resp' = NoResp /\ calls' = {} /\ Quiet
  /\ UNCHANGED <<now, upgraded, subscription, recon>>
  /\ UNCHANGED <<gateway, referredBy, affiliate, delivered>>
  /\ UNCHANGED runs

\* Variant: a failed deployment answers 500 and leaves the stored status.
DeployInstanceKeepsStatus(r, ok) ==
  /\ req[r].pc = "deploy"
  /\ calls' = {<<"deploy", req[r].id>>}
  /\ instances' = [instances EXCEPT
       ![req[r].id].status = IF ok THEN "running" ELSE @]
  /\ resp' = [kind |-> "create", user |-> req[r].user,
              code |-> IF ok THEN 201 ELSE 500]
  /\ req' = [req EXCEPT ![r] = Idle]
  /\ Quiet
  /\ UNCHANGED <<now, upgraded, subscription, recon>>
  /\ UNCHANGED <<gateway, referredBy, affiliate, delivered>>
  /\ UNCHANGED runs

\* Create: ofclockApi.deployInstance returns, the status is saved.
DeployInstance(r, ok) ==
  /\ req[r].pc = "deploy"
  /\ calls' = {<<"deploy", req[r].id>>}
  /\ instances' = [instances EXCEPT
       ![req[r].id].status = IF ok THEN "running" ELSE "error"]
  /\ resp' = [kind |-> "create", user |-> req[r].user,
              code |-> IF ok THEN 201 ELSE 500]
  /\ req' = [req EXCEPT ![r] = Idle]
  /\ Quiet
  /\ UNCHANGED <<now, upgraded, subscription, recon>>
  /\ UNCHANGED <<gateway, referredBy, affiliate, delivered>>
  /\ UNCHANGED runs

\* PUT /:id: the instance lookup and the duplicate-name lookup.
UpdateFind(r, u, id, n) ==
  /\ req[r].op = "idle"
  /\ id \in InstanceIds
  /\ IF ~Found(u, id)
     THEN /\ resp' = [kind |-> "update", user |-> u, code |-> 404]
          /\ UNCHANGED req
     ELSE IF n # instances[id].name /\ NameTakenByOther(u, n, id)
     THEN /\ resp' = [kind |-> "update", user |-> u, code |-> 409]
          /\ UNCHANGED req
     ELSE /\ resp' = NoResp
          /\ req' = [req EXCEPT ![r] = [Idle EXCEPT
               !.op = "update", !.pc = "save", !.user = u, !.name = n,
               !.id = id]]
  /\ calls' = {} /\ Quiet
  /\ UNCHANGED <<now, upgraded, subscription, instances, recon>>
  /\ UNCHANGED <<gateway, referredBy, affiliate, delivered>>
  /\ UNCHANGED runs

\* PUT /:id: instance.save() writes the name.
UpdateSave(r) ==
  /\ req[r].op = "update" /\ req[r].pc = "save"
  /\ instances' = [instances EXCEPT ![req[r].id].name = req[r].name]
  /\ resp' = [kind |-> "update", user |-> req[r].user, code |-> 200]
  /\ req' = [req EXCEPT ![r] = Idle]
  /\ calls' = {} /\ Quiet
  /\ UNCHANGED <<now, upgraded, subscription, recon>>
  /\ UNCHANGED <<gateway, referredBy, affiliate, delivered>>
  /\ UNCHANGED runs

\* DELETE /:id: the lookup, then status 'deleting' is saved.
DeleteMark(r, u, id) ==
  /\ req[r].op = "idle"
  /\ id \in InstanceIds
  /\ IF ~Found(u, id)
     THEN /\ resp' = [kind |-> "delete", user |-> u, code |-> 404]
          /\ UNCHANGED <<req, instances>>
     ELSE /\ resp' = NoResp
          /\ instances' = [instances EXCEPT ![id].status = "deleting"]
          /\ req' = [req EXCEPT ![r] = [Idle EXCEPT
               !.op = "delete", !.pc = "call", !.user = u, !.id = id]]
  /\ calls' = {} /\ Quiet
  /\ UNCHANGED <<now, upgraded, subscription, recon>>
  /\ UNCHANGED <<gateway, referredBy, affiliate, delivered>>
  /\ UNCHANGED runs

\* instanceSchema.methods.softDelete
softDelete(doc, t) == [doc EXCEPT !.deletedAt = t, !.status = "deleting"]

\* DELETE /:id: ofclockApi.deleteInstance returns.
DeleteCall(r, ok) ==
  /\ req[r].op = "delete" /\ req[r].pc = "call"
  /\ calls' = {<<"delete", req[r].id>>}
  /\ instances' = [instances EXCEPT ![req[r].id] =
       IF ok THEN softDelete(@, now) ELSE [@ EXCEPT !.status = "error"]]
  /\ resp' = [kind |-> "delete", user |-> req[r].user,
              code |-> IF ok THEN 200 ELSE 500]
  /\ req' = [req EXCEPT ![r] = Idle]
  /\ Quiet
  /\ UNCHANGED <<now, upgraded, subscription, recon>>
  /\ UNCHANGED <<gateway, referredBy, affiliate, delivered>>
  /\ UNCHANGED runs

\* ------------------------------------------------- trial reconciliation
\* User.find({'subscription.status': 'trial',
\*            'subscription.trialEndsAt': {$lt: now}})
ExpiredTrial(u) ==
  subscription[u].status = "trial" /\ subscription[u].trialEndsAt < now

\* The registered users, in insertion order.
RegisteredUsers == SelectSeq(UserOrder, LAMBDA u : u \in DOMAIN subscription)

ExpiredTrialUsers == SelectSeq(RegisteredUsers, ExpiredTrial)

\* Instance.find({userId: u, deletedAt: null,
\*                status: {$nin: ['deleting', 'error']}})
InstancesToDisable(u) ==
  SelectSeq([i \in InstanceIds |-> i],
            LAMBDA i : /\ instances[i].userId = u
                       /\ instances[i].deletedAt = Null
                       /\ instances[i].status \notin {"deleting", "error"})

\* The for loop of checkExpiredTrials moves on: the next user, or the end.
ScanAfter(rest) ==
  IF rest = <<>> THEN NoScan
  ELSE [pc |-> "user", users |-> rest, insts |-> <<>>]

ScanResp(rest) ==
  IF rest = <<>> THEN [kind |-> "scan"] ELSE NoResp

\* Variant: an exception in one user's processing ends the whole scan.
CaughtAbort(rest) == NoScan

\* handleExpiredTrial's catch block logs the exception and returns; the for
\* loop of checkExpiredTrials goes on with the users that are left.
CaughtAfter(rest) == ScanAfter(rest)

\* Variant: a failed disable call ends the work on the user's instances.
DisableFailedAbort(insts) == <<>>

\* handleExpiredTrial: a failed disable call is logged and the for loop goes
\* on with the user's remaining instances.
DisableFailedAfter(insts) == Tail(insts)

\* checkExpiredTrials: the query.
ReconScan ==
  /\ recon.pc = "idle"
  /\ scanLog.scans < MaxScans
  /\ recon' = ScanAfter(ExpiredTrialUsers)
  /\ resp' = ScanResp(ExpiredTrialUsers)
  /\ scanLog' = [scanLog EXCEPT
       !.scans = @ + 1,
       !.selected = {ExpiredTrialUsers[k] : k \in 1..Len(ExpiredTrialUsers)},
       !.before = subscription,
       !.succeeded = {}]
  /\ calls' = {}
  /\ UNCHANGED <<now, upgraded, subscription, instances, req>>
  /\ UNCHANGED <<gateway, referredBy, affiliate, delivered>>
  /\ UNCHANGED runs

\* handleExpiredTrial: the user's instances are read.
ReconLoad ==
  /\ recon.pc = "user"
  /\ recon' = [recon EXCEPT !.pc = "instances",
                            !.insts = InstancesToDisable(Head(recon.users))]
  /\ resp' = NoResp /\ calls' = {}
  /\ UNCHANGED <<now, upgraded, subscription, instances, req, scanLog>>
  /\ UNCHANGED <<gateway, referredBy, affiliate, delivered>>
  /\ UNCHANGED runs

\* handleExpiredTrial: ofclockApi.disableInstance returns for the next
\* instance.  On success status 'disabled' is saved; a save that fails
\* validation throws, and the catch block ends the work on this user.
ReconDisable(ok) ==
  /\ recon.pc = "instances" /\ recon.insts # <<>>
  /\ calls' = {<<"disable", Head(recon.insts)>>}
  /\ gateway' = IF ok THEN gateway \cup {Head(recon.insts)} ELSE gateway
  /\ scanLog' = [scanLog EXCEPT
       !.disabled = IF scanLog.scans > 0 THEN Append(@, Head(recon.insts))
                    ELSE @,
       !.succeeded = IF scanLog.scans > 0 /\ ok
                     THEN @ \cup {Head(recon.insts)} ELSE @]
  /\ IF ok /\ ValidStatus("disabled")
     THEN /\ instances' = [instances EXCEPT
               ![Head(recon.insts)].status = "disabled"]
          /\ recon' = [recon EXCEPT !.insts = Tail(@)]
          /\ resp' = NoResp
     ELSE IF ok
     THEN /\ recon' = CaughtAfter(Tail(recon.users))
          /\ resp' = ScanResp(Tail(recon.users))
          /\ UNCHANGED instances
     ELSE /\ recon' = [recon EXCEPT !.insts = DisableFailedAfter(@)]
          /\ resp' = NoResp
          /\ UNCHANGED instances
  /\ UNCHANGED <<now, upgraded, subscription, req>>
  /\ UNCHANGED <<referredBy, affiliate, delivered>>
  /\ UNCHANGED runs

\* handleExpiredTrial: after the loop the subscription is marked expired.
ReconExpire ==
  /\ recon.pc = "instances" /\ recon.insts = <<>>
  /\ subscription' = [subscription EXCEPT
       ![Head(recon.users)].status = "expired"]
  /\ recon' = ScanAfter(Tail(recon.users))
  /\ resp' = ScanResp(Tail(recon.users))
  /\ calls' = {}
  /\ UNCHANGED <<now, upgraded, instances, req, scanLog>>
  /\ UNCHANGED <<gateway, referredBy, affiliate, delivered>>
  /\ UNCHANGED runs

\* ------------------------------------------------------ read-model routes
\* GET /status
GetStatus(u) ==
  /\ resp' = [kind |-> "status", user |-> u,
              isTrialActive |-> isTrialActive(subscription[u], now),
              isSubscriptionActive |->
                isSubscriptionActive(subscription[u], now),
              maxInstances |-> getMaxInstances(subscription[u], now)]
  /\ calls' = {}
  /\ UNCHANGED <<now, upgraded, subscription, instances, req, recon, scanLog>>
  /\ UNCHANGED <<gateway, referredBy, affiliate, delivered>>
  /\ UNCHANGED runs

\* GET /can-create-instance
GetCanCreateInstance(u) ==
  /\ resp' = [kind |-> "can-create", user |-> u,
              canCreate |->
                canCreateInstance(subscription[u], now, CountLive(u)),
              currentInstances |-> CountLive(u),
              maxInstances |-> getMaxInstances(subscription[u], now)]
  /\ calls' = {}
  /\ UNCHANGED <<now, upgraded, subscription, instances, req, recon, scanLog>>
  /\ UNCHANGED <<gateway, referredBy, affiliate, delivered>>
  /\ UNCHANGED runs

\* ------------------------------------------------------- specifications
Amounts == {StarterPrice, PaypalProPrice}

\* A new User document takes the schema defaults.
Register(u) ==
  /\ u \notin DOMAIN subscription
  /\ subscription' = subscription @@ (u :> NewSubscription(now))
  /\ referredBy' = referredBy @@ (u :> NoReferrer)
  /\ resp' = NoResp /\ calls' = {} /\ Quiet
  /\ UNCHANGED <<now, upgraded, instances, req, recon>>
  /\ UNCHANGED <<gateway, affiliate, delivered>>
  /\ UNCHANGED runs

Init ==
  /\ now = 0
  /\ subscription = [u \in {"u1"} |-> NewSubscription(0)]
  /\ instances = <<>>
  /\ req = [r \in Slots |-> Idle]
  /\ recon = NoScan
  /\ resp = NoResp
  /\ calls = {}
  /\ scanLog = NoScanLog
  /\ upgraded = {}
  /\ gateway = {}
  /\ referredBy = [u \in {"u1"} |-> NoReferrer]
  /\ affiliate = NoEarnings
  /\ delivered = <<>>
  /\ runs = [p \in Periods |-> NoRun]

Accounts == DOMAIN subscription

\* The instance routes, served by the handlers S.
Requests(S) ==
  \/ \E r \in S, u \in Accounts, n \in Names : CheckInstanceLimit(r, u, n)
  \/ \E r \in S, u \in Accounts, n \in Names : ApiCheckLimit(r, u, n)
  \/ \E r \in S : FindName(r)
  \/ \E r \in S : InsertInstance(r)
  \/ \E r \in S, ok \in BOOLEAN : DeployInstance(r, ok)
  \/ \E r \in S, u \in Accounts, id \in 1..MaxInst, n \in Names :
       UpdateFind(r, u, id, n)
  \/ \E r \in S : UpdateSave(r)
  \/ \E r \in S, u \in Accounts, id \in 1..MaxInst : DeleteMark(r, u, id)
  \/ \E r \in S, ok \in BOOLEAN : DeleteCall(r, ok)

Next ==
  \/ Tick
  \/ \E u \in Accounts : UpgradeToPro(u)
  \/ \E u \in Accounts : ConvertToPaid(u)
  \/ Requests({"r1"})

Spec == Init /\ [][Next]_vars

NextRace ==
  \/ Tick
  \/ \E u \in Accounts : UpgradeToPro(u)
  \/ Requests(Slots)

SpecRace == Init /\ [][NextRace]_vars

\* One handler creating instances, as the reconciliation slices use it.
Creates ==
  \/ \E u \in Accounts, n \in Names : CheckInstanceLimit("r1", u, n)
  \/ FindName("r1")
  \/ InsertInstance("r1")
  \/ \E ok \in BOOLEAN : DeployInstance("r1", ok)

Scans ==
  \/ ReconScan
  \/ ReconLoad
  \/ \E ok \in BOOLEAN : ReconDisable(ok)
  \/ ReconExpire

NextRecon ==
  \/ Tick
  \/ \E u \in Users : Register(u)
  \/ Creates
  \/ Scans

SpecRecon == Init /\ [][NextRecon]_vars

NextSubscription ==
  \/ Tick
  \/ \E u \in Accounts, plan \in {"starter", "pro"} : StartTrial(u, plan)
  \/ \E u \in Accounts : UpgradeToPro(u)
  \/ \E u \in Accounts : ConvertToPaid(u)
  \/ \E u \in Accounts, amount \in Amounts :
       \E enabled \in SUBSET DisabledInstances(u) :
         \E tx \in Transactions : ProcessPayment(u, tx, amount, enabled)
  \/ Creates
  \/ Scans

SpecSubscription == Init /\ [][NextSubscription]_vars

\* Expiry scans over a user who may have upgraded to pro during the trial
\* and so may own several instances.
NextDisable ==
  \/ Tick
  \/ \E u \in Accounts : UpgradeToPro(u)
  \/ Creates
  \/ Scans

SpecDisable == Init /\ [][NextDisable]_vars

\* Payments and commissions of a referred user.
InitPayment ==
  /\ now = 0
  /\ subscription = [u \in {"u1"} |-> NewSubscription(0)]
  /\ instances = <<>>
  /\ req = [r \in Slots |-> Idle]
  /\ recon = NoScan
  /\ resp = NoResp
  /\ calls = {}
  /\ scanLog = NoScanLog
  /\ upgraded = {}
  /\ gateway = {}
  /\ referredBy = [u \in {"u1"} |-> Referrer]
  /\ affiliate = NoEarnings
  /\ delivered = <<>>
  /\ runs = [p \in Periods |-> NoRun]

NextPayment ==
  \/ Tick
  \/ \E u \in Accounts : ConvertToPaid(u)
  \/ \E u \in Accounts, tx \in Transactions, amount \in Amounts :
       ProcessPayment(u, tx, amount, {})
  \/ \E u \in Accounts, tx \in Transactions, amount \in Amounts :
       \E credited, saved \in BOOLEAN :
         WebhookPayment(u, tx, amount, credited, saved)

SpecPayment == InitPayment /\ [][NextPayment]_vars

\* ------------------------------------------------ the evaluator, alone
\* Subscription sub-documents the schema admits (maxInstances may have
\* been stored as null), and Instance documents of user u1.
EvalSubscriptions ==
  [plan : Plans, status : SubscriptionStatus,
   maxInstances : {Null, Unlimited} \cup (0..MaxInst),
   price : {StarterPrice},
   trialEndsAt : 0..MaxTime, nextBillingDate : {Null}]

EvalDocs ==
  [userId : {"u1"}, name : Names, status : {"running", "error"},
   deletedAt : {Null, 0}, customDomain : {NoDomain}]

\* The first document is named a, the others b; live names are distinct.
EvalInstances ==
  {docs \in UNION {[1..k -> EvalDocs] : k \in 0..MaxInst} :
     /\ \A i \in DOMAIN docs : docs[i].name = IF i = 1 THEN "a" ELSE "b"
     /\ \A i, j \in DOMAIN docs :
          (i # j /\ docs[i].deletedAt = Null /\ docs[j].deletedAt = Null)
            => docs[i].name # docs[j].name}

InitEval ==
  /\ now \in 0..MaxTime
  /\ subscription \in [{"u1"} -> EvalSubscriptions]
  /\ instances \in EvalInstances
  /\ req = [r \in Slots |-> Idle]
  /\ recon = NoScan
  /\ resp = NoResp
  /\ calls = {}
  /\ scanLog = NoScanLog
  /\ upgraded = {}
  /\ gateway = {}
  /\ referredBy = [u \in {"u1"} |-> NoReferrer]
  /\ affiliate = NoEarnings
  /\ delivered = <<>>
  /\ runs = [p \in Periods |-> NoRun]

NextEval ==
  \/ \E u \in Accounts : GetStatus(u)
  \/ \E u \in Accounts : GetCanCreateInstance(u)

SpecEval == InitEval /\ [][NextEval]_vars

\* The subscription GET /status and GET /can-create-instance answered for.
Asked == subscription[resp.user]

\* status = active, or an unexpired trial.
Entitled(s) ==
  s.status = "active" \/ (s.status = "trial" /\ now < s.trialEndsAt)

\* C1: isTrialActive is true exactly when status = trial and now is before
\* trialEndsAt: false at trialEndsAt and later, false for any other status.
C1_TrialActiveIffBeforeEnd ==
  resp.kind = "status" =>
    (resp.isTrialActive <=>
       (Asked.status = "trial" /\ now < Asked.trialEndsAt))

C1_Witness ==
  /\ resp.kind = "status"
  /\ Asked.status = "trial"
  /\ now = Asked.trialEndsAt
  /\ ~resp.isTrialActive

\* C2: getMaxInstances is 0 when the subscription is not active; otherwise
\* the stored maxInstances when one is set, otherwise the plan default
\* (starter 1, pro -1).
C2_MaxInstances ==
  (resp.kind = "status" /\ Asked.plan \in {"starter", "pro"}) =>
    resp.maxInstances =
      IF ~Entitled(Asked) THEN 0
      ELSE IF Asked.maxInstances # Null THEN Asked.maxInstances
      ELSE IF Asked.plan = "starter" THEN 1 ELSE -1

C2_Witness ==
  /\ resp.kind = "status"
  /\ Asked.status = "active"
  /\ Asked.maxInstances = Null
  /\ Asked.plan = "pro"
  /\ resp.maxInstances = -1

\* C4: with an active subscription and a limit m, canCreateInstance is
\* false for every live count >= m; with the unlimited value -1 it is true
\* for every count; with an inactive subscription it is false for every
\* count and every maxInstances.
C4_CanCreateMonotone ==
  resp.kind = "can-create" =>
    /\ (Entitled(Asked) /\ Asked.maxInstances >= 0
          /\ resp.currentInstances >= Asked.maxInstances) => ~resp.canCreate
    /\ (Entitled(Asked) /\ Asked.maxInstances = -1) => resp.canCreate
    /\ ~Entitled(Asked) => ~resp.canCreate

C4_Witness ==
  /\ resp.kind = "can-create"
  /\ Entitled(Asked)
  /\ Asked.maxInstances = 1
  /\ resp.currentInstances = 2
  /\ ~resp.canCreate

\* ------------------------------------------------------ create requests
\* The answer of the last step is a quota rejection of a create request.
LimitRejected ==
  resp.kind = "create" /\ resp.code = 403 /\ resp.error = "limit"

\* C3: the count that decides whether a user may create is the number of
\* the user's instances with deletedAt = null and status not in
\* {deleting, error}: a create request is turned down for quota only when
\* that number has reached the user's maxInstances.
C3_QuotaCountsNonTerminal ==
  LimitRejected =>
    CountLiveNotTerminal(resp.user) >=
      getMaxInstances(subscription[resp.user], now)

\* An entitlement rejection of a create request.
EntitlementRejected == resp.kind = "create" /\ resp.code = 403

\* The starter scenario: an active subscription on the starter plan with
\* maxInstances = 1 and one live, running instance (the quota is reached).
StarterAtLimit(u) ==
  /\ isSubscriptionActive(subscription[u], now)
  /\ subscription[u].plan = "starter"
  /\ subscription[u].maxInstances = 1
  /\ CountLive(u) = 1
  /\ \E i \in InstanceIds : /\ instances[i].userId = u
                            /\ instances[i].deletedAt = Null
                            /\ instances[i].status = "running"

\* C5: a create request rejected for entitlement creates and changes no
\* Instance document, issues no Gateway call and ends there; for a starter
\* user with an active subscription, maxInstances = 1 and one live running
\* instance the quota rejection reports currentCount = 1 and maxAllowed = 1.
C5_RejectionLeavesRegistry ==
  /\ [][EntitlementRejected' =>
          /\ instances' = instances
          /\ calls' = {}
          /\ req' = req]_vars
  /\ []((LimitRejected /\ StarterAtLimit(resp.user)) =>
          (resp.currentCount = 1 /\ resp.maxAllowed = 1))

C5_Witness ==
  /\ LimitRejected
  /\ StarterAtLimit(resp.user)
  /\ resp.currentCount = 1
  /\ resp.maxAllowed = 1
  /\ calls = {}

\* C7: for every user and name at most one instance with deletedAt = null
\* carries that name.
C7_UniqueLiveName ==
  \A i, j \in InstanceIds :
    (/\ i # j
     /\ instances[i].userId = instances[j].userId
     /\ instances[i].name = instances[j].name
     /\ instances[i].deletedAt = Null)
      => instances[j].deletedAt # Null

\* User u has instances named n, and all of them are soft-deleted.
OnlySoftDeleted(u, n) ==
  /\ \E i \in InstanceIds : instances[i].userId = u /\ instances[i].name = n
  /\ \A i \in InstanceIds :
       (instances[i].userId = u /\ instances[i].name = n)
         => instances[i].deletedAt # Null

\* C8: when the only instances of a user named N are soft-deleted, the
\* duplicate-name lookup of an entitled create request for N does not
\* reject it, and the request then stores a new live instance named N.
C8_SoftDeletedNameReusable ==
  [][\A r \in Slots :
       /\ (/\ req[r].pc = "findName"
           /\ OnlySoftDeleted(req[r].user, req[r].name)
           /\ req'[r] # req[r])
            => (req'[r].pc = "insert" /\ resp'.kind = "none")
       /\ (req[r].pc = "insert" /\ req'[r] # req[r])
            => /\ req'[r].pc = "deploy"
               /\ Len(instances') = Len(instances) + 1
               /\ instances'[req'[r].id] =
                    [userId |-> req[r].user, name |-> req[r].name,
                     status |-> "deploying", deletedAt |-> Null,
                     customDomain |-> NoDomain]]_vars

C8_Witness ==
  \E r \in Slots, i \in InstanceIds :
    /\ req[r].pc = "deploy"
    /\ i # req[r].id
    /\ instances[i].userId = req[r].user
    /\ instances[i].name = instances[req[r].id].name
    /\ instances[i].deletedAt # Null
    /\ instances[req[r].id].deletedAt = Null

\* ------------------------------------------------------- subscriptions
\* C6: once a user's plan was set to pro by the upgrade, the stored
\* maxInstances is -1 for as long as the plan stays pro.
C6_UpgradedStaysUnlimited ==
  \A u \in upgraded : subscription[u].maxInstances = Unlimited

\* -------------------------------------------------------- expiry scans
\* The last step completed a scan that ran without any other step between
\* its query and its end.
ScanCompleted == resp.kind = "scan" /\ scanLog.scans > 0

\* C9: when a scan completes, every user it selected (status trial,
\* trialEndsAt < now) has status expired, every instance whose disable call
\* succeeded has status disabled, and every other user is unchanged.
C9_ScanExpiresAndDisables ==
  ScanCompleted =>
    /\ \A u \in scanLog.selected : subscription[u].status = "expired"
    /\ \A i \in scanLog.succeeded : instances[i].status = "disabled"
    /\ \A u \in DOMAIN scanLog.before \ scanLog.selected :
         subscription[u] = scanLog.before[u]

\* Occurrences of instance i in the log of disable calls.
DisableCalls(i) ==
  Cardinality({k \in 1..Len(scanLog.disabled) : scanLog.disabled[k] = i})

\* C10: two scans run back to back, with no clock advance and no other
\* operation between them, issue at most one disable call per instance.
C10_ScanTwiceDisablesOnce ==
  scanLog.scans <= 2 => \A i \in InstanceIds : DisableCalls(i) <= 1

\* C11: an instance whose disable call failed during a scan is still a
\* candidate when the scan has completed: the next scan's user query selects
\* its owner again and its instance query returns the instance.
C11_FailedDisableStaysCandidate ==
  (ScanCompleted /\ scanLog.scans = 1) =>
    \A k \in 1..Len(scanLog.disabled) :
      LET i == scanLog.disabled[k] IN
        i \notin scanLog.succeeded =>
          /\ ExpiredTrial(instances[i].userId)
          /\ \E j \in 1..Len(InstancesToDisable(instances[i].userId)) :
               InstancesToDisable(instances[i].userId)[j] = i

\* The step is a disable call of an uninterrupted scan that failed.
DisableFailedStep ==
  /\ recon.pc = "instances" /\ recon.insts # <<>>
  /\ scanLog.scans > 0
  /\ calls' = {<<"disable", Head(recon.insts)>>}
  /\ Head(recon.insts) \notin scanLog'.succeeded

\* C12: a failed disable call leaves every Instance document as it was, and
\* the loop goes on with the user's remaining instances.
C12_FailedDisableLeavesInstance ==
  [][DisableFailedStep =>
       /\ instances' = instances
       /\ recon'.pc = "instances"
       /\ recon'.users = recon.users
       /\ recon'.insts = Tail(recon.insts)]_vars

\* After a failed call for a user's first instance, the call for the second
\* one has been issued; the first instance is as it was.
C12_Witness ==
  /\ Len(scanLog.disabled) = 2
  /\ scanLog.disabled[1] \notin scanLog.succeeded
  /\ instances[scanLog.disabled[1]].userId =
       instances[scanLog.disabled[2]].userId
  /\ instances[scanLog.disabled[1]].status = "running"
  /\ calls = {<<"disable", scanLog.disabled[2]>>}

\* C13: when the scan leaves a user, after the loop over the user's
\* instances, the user's subscription status is expired, whether or not a
\* disable call succeeded.
C13_ExpiredAfterLoop ==
  [][(recon.pc = "instances" /\ recon' # recon
        /\ (recon'.pc # "instances" \/ recon'.users # recon.users))
       => subscription'[Head(recon.users)].status = "expired"]_vars

\* C14: when no scan is running and an uninterrupted scan has run, every
\* user it selected whose processing raised no exception (no disable call
\* of theirs succeeded) has been processed to the end: status expired.
C14_ExceptionKeepsBatch ==
  (recon.pc = "idle" /\ scanLog.scans > 0) =>
    \A u \in scanLog.selected :
      (\A i \in scanLog.succeeded : instances[i].userId # u)
        => subscription[u].status = "expired"

\* The first user's processing threw (the disable call succeeded, the save
\* was refused), and the second user was still processed.
C14_Witness ==
  /\ recon.pc = "idle" /\ scanLog.scans = 1
  /\ scanLog.selected = {"u1", "u2"}
  /\ \E i \in scanLog.succeeded : instances[i].userId = "u1"
  /\ subscription["u1"].status = "trial"
  /\ subscription["u2"].status = "expired"

\* C19: after a payment is processed the stored plan is the one derived
\* from the amount (pro or starter) and the stored maxInstances is that
\* plan's capacity: 1 for starter, -1 (unlimited) for pro.
C19_PaymentSetsPlanCapacity ==
  resp.kind = "payment" =>
    /\ resp.plan \in {"starter", "pro"}
    /\ subscription[resp.user].plan = resp.plan
    /\ subscription[resp.user].maxInstances = PlanMaxInstances(resp.plan)

Redelivery ==
  /\ Len(delivered') = Len(delivered) + 1
  /\ \E k \in 1..Len(delivered) :
       /\ delivered[k].code = 200
       /\ delivered[k].user = delivered'[Len(delivered')].user
       /\ delivered[k].tx = delivered'[Len(delivered')].tx
       /\ delivered[k].amount = delivered'[Len(delivered')].amount

\* C16: processing a payment confirmation a second time changes nothing:
\* the subscription (nextBillingDate included) and the referrer's earnings
\* stay as they are.
C16_RedeliveryChangesNothing ==
  [][Redelivery => (subscription' = subscription /\ affiliate' = affiliate)]_vars

\* C17: for a user with a referrer, a step that handles a payment stores the
\* subscription update exactly when it credits the commission.
C17_PaymentAndCommissionTogether ==
  [][(/\ Len(delivered') = Len(delivered) + 1
      /\ referredBy[delivered'[Len(delivered')].user] # NoReferrer)
       => ((subscription' # subscription) <=> (affiliate' # affiliate))]_vars

\* ------------------------------------------- API-key delete, custom domains
\* DELETE /instances/:id (API key): authenticateApiKey, then the lookup.
ApiDeleteFind(r, u, id) ==
  /\ req[r].op = "idle"
  /\ id \in InstanceIds
  /\ IF ~hasProAccess(subscription[u], now)
     THEN /\ resp' = [kind |-> "delete", user |-> u, code |-> 403]
          /\ UNCHANGED req
     ELSE IF ~Found(u, id)
     THEN /\ resp' = [kind |-> "delete", user |-> u, code |-> 404]
          /\ UNCHANGED req
     ELSE /\ resp' = NoResp
          /\ req' = [req EXCEPT ![r] = [Idle EXCEPT
               !.op = "apiDelete", !.pc = "call", !.user = u, !.id = id]]
  /\ calls' = {} /\ Quiet
  /\ UNCHANGED <<now, upgraded, subscription, instances, recon>>
  /\ UNCHANGED <<gateway, referredBy, affiliate, delivered, runs>>

\* Variant: the instance is soft-deleted whatever the Gateway answered.
ApiDeleteCallAlways(r, ok) ==
  /\ req[r].op = "apiDelete" /\ req[r].pc = "call"
  /\ calls' = {<<"delete", req[r].id>>}
  /\ instances' = [instances EXCEPT ![req[r].id] = softDelete(@, now)]
  /\ resp' = [kind |-> "delete", user |-> req[r].user,
              code |-> IF ok THEN 200 ELSE 500]
  /\ req' = [req EXCEPT ![r] = Idle]
  /\ Quiet
  /\ UNCHANGED <<now, upgraded, subscription, recon>>
  /\ UNCHANGED <<gateway, referredBy, affiliate, delivered, runs>>

\* DELETE /instances/:id (API key): ofclockApi.deleteInstance returns.  On
\* failure the handler answers 500 and writes nothing.
ApiDeleteCall(r, ok) ==
  /\ req[r].op = "apiDelete" /\ req[r].pc = "call"
  /\ calls' = {<<"delete", req[r].id>>}
  /\ instances' = [instances EXCEPT ![req[r].id] =
       IF ok THEN softDelete(@, now) ELSE @]
  /\ resp' = [kind |-> "delete", user |-> req[r].user,
              code |-> IF ok THEN 200 ELSE 500]
  /\ req' = [req EXCEPT ![r] = Idle]
  /\ Quiet
  /\ UNCHANGED <<now, upgraded, subscription, recon>>
  /\ UNCHANGED <<gateway, referredBy, affiliate, delivered, runs>>

\* Instance.findOne({'customDomain.domain': d, 'customDomain.isActive': true,
\*                   deletedAt: null}) finds a document.
DomainInUse(d) ==
  \E i \in InstanceIds : /\ instances[i].customDomain.domain = d
                         /\ instances[i].customDomain.isActive
                         /\ instances[i].deletedAt = Null

\* POST /:id/domain: the instance lookup, the status check and the lookup
\* of the domain.  (POST /instances/:id/domain does the same for a user
\* that authenticateApiKey admitted.)
AddDomainFind(r, u, id, d) ==
  /\ req[r].op = "idle"
  /\ id \in InstanceIds
  /\ IF ~Found(u, id)
     THEN /\ resp' = [kind |-> "addDomain", user |-> u, code |-> 404]
          /\ UNCHANGED req
     ELSE IF instances[id].status # "running"
     THEN /\ resp' = [kind |-> "addDomain", user |-> u, code |-> 400]
          /\ UNCHANGED req
     ELSE IF DomainInUse(d)
     THEN /\ resp' = [kind |-> "addDomain", user |-> u, code |-> 409]
          /\ UNCHANGED req
     ELSE /\ resp' = NoResp
          /\ req' = [req EXCEPT ![r] = [Idle EXCEPT
               !.op = "addDomain", !.pc = "call", !.user = u, !.id = id,
               !.domain = d]]
  /\ calls' = {} /\ Quiet
  /\ UNCHANGED <<now, upgraded, subscription, instances, recon>>
  /\ UNCHANGED <<gateway, referredBy, affiliate, delivered, runs>>

\* Add domain: ofclockApi.addDomain returns.  On success customDomain is
\* saved; on failure the handler answers the error and writes nothing.
AddDomainCall(r, ok) ==
  /\ req[r].op = "addDomain" /\ req[r].pc = "call"
  /\ calls' = {<<"addDomain", req[r].id>>}
  /\ instances' = [instances EXCEPT ![req[r].id].customDomain =
       IF ok THEN [domain |-> req[r].domain, isActive |-> TRUE] ELSE @]
  /\ resp' = [kind |-> "addDomain", user |-> req[r].user,
              code |-> IF ok THEN 200 ELSE 500]
  /\ req' = [req EXCEPT ![r] = Idle]
  /\ Quiet
  /\ UNCHANGED <<now, upgraded, subscription, recon>>
  /\ UNCHANGED <<gateway, referredBy, affiliate, delivered, runs>>

\* DELETE /:id/domain (DELETE /instances/:id/domain does the same for a
\* user that authenticateApiKey admitted).
RemoveDomain(u, id) ==
  /\ id \in InstanceIds
  /\ IF ~Found(u, id)
     THEN /\ resp' = [kind |-> "removeDomain", user |-> u, code |-> 404]
          /\ UNCHANGED instances
     ELSE IF ~instances[id].customDomain.isActive
     THEN /\ resp' = [kind |-> "removeDomain", user |-> u, code |-> 400]
          /\ UNCHANGED instances
     ELSE /\ resp' = [kind |-> "removeDomain", user |-> u, code |-> 200,
                      id |-> id]
          /\ instances' = [instances EXCEPT ![id].customDomain =
               [domain |-> NullDomain, isActive |-> FALSE]]
  /\ calls' = {} /\ Quiet
  /\ UNCHANGED <<now, upgraded, subscription, req, recon>>
  /\ UNCHANGED <<gateway, referredBy, affiliate, delivered, runs>>

\* The request-driven operations that call the Gateway, and remove-domain,
\* served by the handlers S.
Foreground(S) ==
  \/ \E r \in S, u \in Accounts, n \in Names : CheckInstanceLimit(r, u, n)
  \/ \E r \in S : FindName(r)
  \/ \E r \in S : InsertInstance(r)
  \/ \E r \in S, ok \in BOOLEAN : DeployInstance(r, ok)
  \/ \E r \in S, u \in Accounts, id \in 1..MaxInst : DeleteMark(r, u, id)
  \/ \E r \in S, ok \in BOOLEAN : DeleteCall(r, ok)
  \/ \E r \in S, u \in Accounts, id \in 1..MaxInst : ApiDeleteFind(r, u, id)
  \/ \E r \in S, ok \in BOOLEAN : ApiDeleteCall(r, ok)
  \/ \E r \in S, u \in Accounts, id \in 1..MaxInst, d \in Domains :
       AddDomainFind(r, u, id, d)
  \/ \E r \in S, ok \in BOOLEAN : AddDomainCall(r, ok)
  \/ \E u \in Accounts, id \in 1..MaxInst : RemoveDomain(u, id)

NextForeground ==
  \/ \E u \in Accounts : UpgradeToPro(u)
  \/ Foreground({"r1"})

SpecForeground == Init /\ [][NextForeground]_vars

NextDomainRace ==
  \/ \E u \in Accounts : UpgradeToPro(u)
  \/ Foreground(Slots)

SpecDomainRace == Init /\ [][NextDomainRace]_vars

\* The step is the return of a failed Gateway call that a request made for
\* instance i (deploy, delete or add-domain).
ForegroundCallFailed(i) ==
  /\ \E op \in {"deploy", "delete", "addDomain"} : <<op, i>> \in calls'
  /\ resp'.code = 500

\* C21: every request-driven operation whose Gateway call fails (deploy,
\* delete, add-domain, on the session API and on the API-key API) leaves the
\* affected instance with status = error.
C21_FailedCallMarksError ==
  [][\A i \in DOMAIN instances' :
       ForegroundCallFailed(i) => instances'[i].status = "error"]_vars

\* C22: an instance is soft-deleted (deletedAt set, status deleting) only by
\* the step in which the Gateway delete call of a request for it succeeded;
\* a step in which that call failed leaves deletedAt = null and the document
\* in the registry.
C22_SoftDeleteOnlyAfterGatewayDelete ==
  [][/\ \A i \in DOMAIN instances :
          (instances[i].deletedAt = Null /\ instances'[i].deletedAt # Null)
            => /\ <<"delete", i>> \in calls'
               /\ resp'.code = 200
               /\ instances'[i].status = "deleting"
     /\ \A i \in DOMAIN instances :
          (<<"delete", i>> \in calls' /\ resp'.code # 200)
            => /\ instances'[i].deletedAt = Null
               /\ Len(instances') = Len(instances)]_vars

\* A delete request whose Gateway call just failed left its instance live,
\* while another instance has been soft-deleted by a delete that succeeded.
C22_Witness ==
  /\ resp.kind = "delete" /\ resp.code = 500
  /\ \E i \in InstanceIds : /\ <<"delete", i>> \in calls
                            /\ instances[i].deletedAt = Null
  /\ \E j \in InstanceIds : /\ instances[j].deletedAt # Null
                            /\ instances[j].status = "deleting"

\* C23: the Gateway deploy call of a create request is issued only after the
\* entitlement check of that request has passed: the subscription was active
\* and the quota was not reached when the check was made.
C23_DeployOnlyAfterCheck ==
  [][\A r \in Slots :
       (req[r].pc = "deploy" /\ <<"deploy", req[r].id>> \in calls')
         => /\ req[r].op = "create"
            /\ req[r].checked.active
            /\ ~req[r].checked.quotaReached]_vars

\* A deploy call has been issued for a user whose subscription is no longer
\* active (the trial ended after the check).
C23_Witness ==
  /\ \E i \in InstanceIds :
       /\ <<"deploy", i>> \in calls
       /\ ~isSubscriptionActive(subscription[instances[i].userId], now)
  /\ resp.kind = "create" /\ resp.code = 201

\* ------------------------------------------------ WebhookApiService calls
\* error.response?.status || 500
DefaultStatus == 500

\* What the remote call of a Gateway method can come to: a 2xx response
\* (the promise resolves), a response outside 2xx, a timeout or a network
\* or DNS failure (the promise rejects, the last two without a response).
\* data: the response carries a body.
Outcomes ==
  [kind : {"response"}, status : {200, 201, 204}, data : BOOLEAN] \cup
  [kind : {"rejected"}, status : {400, 404, 500, 503}, data : BOOLEAN] \cup
  [kind : {"timeout", "network"}, status : {0}, data : {FALSE}]

\* The return value of the try block: {success: true, data, status}.
Resolved(o) ==
  [raised |-> FALSE, success |-> TRUE, payload |-> "data",
   status |-> o.status]

\* The return value of the catch block: {success: false,
\* error: error.response?.data || {message, ...},
\* status: error.response?.status || 500}.
Caught(o) ==
  [raised |-> FALSE, success |-> FALSE,
   payload |-> IF o.kind = "rejected" /\ o.data THEN "response data"
               ELSE "synthetic error",
   status |-> IF o.kind = "rejected" THEN o.status ELSE DefaultStatus]

\* Variant: a timeout is thrown on to the caller.
TimeoutRaised(o) ==
  IF o.kind = "timeout"
  THEN [raised |-> TRUE, success |-> FALSE, payload |-> "synthetic error",
        status |-> DefaultStatus]
  ELSE IF o.kind = "response" THEN Resolved(o) ELSE Caught(o)

deployInstance(o) == IF o.kind = "response" THEN Resolved(o) ELSE Caught(o)

deleteInstance(o) == IF o.kind = "response" THEN Resolved(o) ELSE Caught(o)

addDomain(o) == IF o.kind = "response" THEN Resolved(o) ELSE Caught(o)

disableInstance(o) == IF o.kind = "response" THEN Resolved(o) ELSE Caught(o)

enableInstance(o) == IF o.kind = "response" THEN Resolved(o) ELSE Caught(o)

GatewayOps == {"deploy", "delete", "addDomain", "disable", "enable"}

\* A caller awaits ofclockApi.<op>(userId) and the remote call comes to o.
GatewayCall(op, o) ==
  /\ resp' = [kind |-> "gateway", op |-> op, outcome |-> o,
              result |-> CASE op = "deploy" -> deployInstance(o)
                           [] op = "delete" -> deleteInstance(o)
                           [] op = "addDomain" -> addDomain(o)
                           [] op = "disable" -> disableInstance(o)
                           [] OTHER -> enableInstance(o)]
  /\ calls' = {<<op, 0>>} /\ Quiet
  /\ UNCHANGED <<now, upgraded, subscription, instances, req, recon>>
  /\ UNCHANGED <<gateway, referredBy, affiliate, delivered, runs>>

NextGatewayCall ==
  \/ Tick
  \/ \E op \in GatewayOps, o \in Outcomes : GatewayCall(op, o)

SpecGatewayCall == Init /\ [][NextGatewayCall]_vars

\* C24: every Gateway operation (deploy, delete, disable, enable, addDomain)
\* returns, for every outcome of the remote call, a result with a boolean
\* success and a status and raises nothing; success is true exactly for a
\* 2xx response, so a timeout is success = false like a remote rejection or
\* a network error.
C24_GatewayResultNormalized ==
  resp.kind = "gateway" =>
    /\ ~resp.result.raised
    /\ resp.result.success \in BOOLEAN
    /\ resp.result.status \in 100..599
    /\ resp.result.success <=> (resp.outcome.kind = "response")
    /\ resp.outcome.kind \in {"timeout", "network"}
         => resp.result.status = DefaultStatus
    /\ resp.outcome.kind \in {"response", "rejected"}
         => resp.result.status = resp.outcome.status

\* A disable call that timed out has returned success = false.
C24_Witness ==
  /\ resp.kind = "gateway" /\ resp.op = "disable"
  /\ resp.outcome.kind = "timeout"
  /\ ~resp.result.raised /\ ~resp.result.success
  /\ resp.result.status = DefaultStatus

\* ------------------------------------------------ the timer's runs
\* this.checkInterval, in hours.
CheckInterval == 1

\* The for loop of checkExpiredTrials moves on in run: the next user, or
\* the end of the run.
RunAfter(run, rest) ==
  IF rest = <<>> THEN [NoRun EXCEPT !.firedAt = run.firedAt]
  ELSE [run EXCEPT !.pc = "user", !.users = rest, !.insts = <<>>]

\* start()'s initial check, or the setInterval callback: checkExpiredTrials
\* is called and runs its query, whatever earlier runs are doing.  The
\* callback fires once per checkInterval.
TimerFires(p) ==
  /\ runs[p].pc = "idle"
  /\ \A q \in Periods :
       runs[q].firedAt = Null \/ now >= runs[q].firedAt + CheckInterval
  /\ runs' = [runs EXCEPT ![p] =
       RunAfter([NoRun EXCEPT !.firedAt = now], ExpiredTrialUsers)]
  /\ resp' = NoResp /\ calls' = {} /\ Quiet
  /\ UNCHANGED <<now, upgraded, subscription, instances, req, recon>>
  /\ UNCHANGED <<gateway, referredBy, affiliate, delivered>>

\* handleExpiredTrial: the user's instances are read.
RunLoad(p) ==
  /\ runs[p].pc = "user"
  /\ runs' = [runs EXCEPT ![p].pc = "instances",
                          ![p].insts = InstancesToDisable(Head(runs[p].users))]
  /\ resp' = NoResp /\ calls' = {} /\ Quiet
  /\ UNCHANGED <<now, upgraded, subscription, instances, req, recon>>
  /\ UNCHANGED <<gateway, referredBy, affiliate, delivered>>

\* handleExpiredTrial: ofclockApi.disableInstance is called for the next
\* instance and awaited.
RunCall(p) ==
  /\ runs[p].pc = "instances" /\ runs[p].insts # <<>>
  /\ runs' = [runs EXCEPT ![p].pc = "calling"]
  /\ calls' = {<<"disable", Head(runs[p].insts)>>}
  /\ resp' = NoResp /\ Quiet
  /\ UNCHANGED <<now, upgraded, subscription, instances, req, recon>>
  /\ UNCHANGED <<gateway, referredBy, affiliate, delivered>>

\* handleExpiredTrial: the awaited call returns.  On success status
\* 'disabled' is saved; a save that fails validation throws, and the catch
\* block ends the work on this user.  A failed call is logged.
RunReturn(p, ok) ==
  /\ runs[p].pc = "calling"
  /\ gateway' = IF ok THEN gateway \cup {Head(runs[p].insts)} ELSE gateway
  /\ IF ok /\ ValidStatus("disabled")
     THEN /\ instances' = [instances EXCEPT
               ![Head(runs[p].insts)].status = "disabled"]
          /\ runs' = [runs EXCEPT ![p].pc = "instances",
                                  ![p].insts = Tail(@)]
     ELSE IF ok
     THEN /\ runs' = [runs EXCEPT ![p] = RunAfter(@, Tail(@.users))]
          /\ UNCHANGED instances
     ELSE /\ runs' = [runs EXCEPT ![p].pc = "instances",
                                  ![p].insts = DisableFailedAfter(@)]
          /\ UNCHANGED instances
  /\ resp' = NoResp /\ calls' = {} /\ Quiet
  /\ UNCHANGED <<now, upgraded, subscription, req, recon>>
  /\ UNCHANGED <<referredBy, affiliate, delivered>>

\* handleExpiredTrial: after the loop the subscription is marked expired.
RunExpire(p) ==
  /\ runs[p].pc = "instances" /\ runs[p].insts = <<>>
  /\ subscription' = [subscription EXCEPT
       ![Head(runs[p].users)].status = "expired"]
  /\ runs' = [runs EXCEPT ![p] = RunAfter(@, Tail(@.users))]
  /\ resp' = NoResp /\ calls' = {} /\ Quiet
  /\ UNCHANGED <<now, upgraded, instances, req, recon>>
  /\ UNCHANGED <<gateway, referredBy, affiliate, delivered>>

NextTimer ==
  \/ Tick
  \/ \E u \in Accounts, plan \in {"starter", "pro"} : StartTrial(u, plan)
  \/ Creates
  \/ \E p \in Periods : TimerFires(p)
  \/ \E p \in Periods : RunLoad(p)
  \/ \E p \in Periods : RunCall(p)
  \/ \E p \in Periods, ok \in BOOLEAN : RunReturn(p, ok)
  \/ \E p \in Periods : RunExpire(p)

SpecTimer == Init /\ [][NextTimer]_vars

\* The disable calls of trial reconciliation that have not returned.
InFlight == {p \in Periods : runs[p].pc = "calling"}

\* C25: at any moment at most one Gateway call issued by trial
\* reconciliation is in flight, also when a run is still in progress at the
\* time the next timer period fires.
C25_OneReconciliationCallInFlight ==
  Cardinality(InFlight) <= 1

\* C26: the pro upgrade moves the subscription to status active from
\* whatever status it had before (trial, expired, cancelled or active).
C26_UpgradeActivates ==
  [][(resp'.kind = "upgrade" /\ resp'.code = 200)
       => subscription'[resp'.user].status = "active"]_vars

\* The subscription routes and the payment confirmation, without instances.
NextPlan ==
  \/ Tick
  \/ \E u \in Accounts, plan \in {"starter", "pro"} : StartTrial(u, plan)
  \/ \E u \in Accounts : UpgradeToPro(u)
  \/ \E u \in Accounts : ConvertToPaid(u)
  \/ \E u \in Accounts, tx \in Transactions, amount \in Amounts :
       ProcessPayment(u, tx, amount, {})

SpecPlan == Init /\ [][NextPlan]_vars

\* C27: in every reachable state a subscription whose stored maxInstances
\* is -1 has plan = pro.
C27_UnlimitedOnlyPro ==
  \A u \in DOMAIN subscription :
    subscription[u].maxInstances = Unlimited => subscription[u].plan = "pro"

\* After a starter payment and an upgrade the subscription stores
\* maxInstances = -1 on plan pro, with status active.
C27_Witness ==
  /\ Len(delivered) > 0
  /\ delivered[1].amount = StarterPrice
  /\ resp.kind = "upgrade" /\ resp.code = 200
  /\ subscription[resp.user].maxInstances = Unlimited
  /\ subscription[resp.user].plan = "pro"
  /\ subscription[resp.user].status = "active"

\* C28: a subscription's status becomes expired only by a step of the trial
\* reconciliation loop and only from status trial; the loop never writes
\* expired over a stored status active.
C28_ExpiredOnlyFromTrial ==
  [][\A u \in DOMAIN subscription :
       (subscription[u].status # "expired"
          /\ subscription'[u].status = "expired")
         => /\ recon.pc = "instances"
            /\ subscription[u].status = "trial"]_vars

\* C29: convert-to-paid succeeds only when the stored status is trial and
\* then leaves status = active with nextBillingDate = now + 30 days; for
\* every other status it is rejected and the subscriptions, the instances
\* and the affiliate records are unchanged.
C29_ConvertOnlyFromTrial ==
  [][resp'.kind = "convert" =>
       IF resp'.code = 200
       THEN /\ subscription[resp'.user].status = "trial"
            /\ subscription'[resp'.user].status = "active"
            /\ subscription'[resp'.user].nextBillingDate = now + BillingPeriod
       ELSE /\ subscription[resp'.user].status # "trial"
            /\ subscription' = subscription
            /\ instances' = instances
            /\ affiliate' = affiliate]_vars

\* A conversion was just rejected for a user who had converted before: the
\* status is active, the billing date and the commission are the earlier ones.
C29_Witness ==
  /\ resp.kind = "convert" /\ resp.code = 400
  /\ subscription[resp.user].status = "active"
  /\ subscription[resp.user].nextBillingDate # Null
  /\ resp.user \in affiliate.referrals
  /\ affiliate.totalEarnings = Commission(StarterPrice)

\* Live instances that carry domain d as their active custom domain.
ActiveOn(d) ==
  {i \in InstanceIds : /\ instances[i].deletedAt = Null
                       /\ instances[i].customDomain.isActive
                       /\ instances[i].customDomain.domain = d}

\* C30: a custom domain is attached only to a live instance whose status is
\* running; in every reachable state no two live instances have the same
\* domain with customDomain.isActive = true; a rejected add-domain request
\* (instance not running, domain in use, Gateway failure) leaves every
\* instance's customDomain unchanged; after remove-domain the instance has
\* isActive = false and no domain.
C30_DomainAttachedOnceToRunning ==
  /\ [](\A d \in Domains : Cardinality(ActiveOn(d)) <= 1)
  /\ [][\A i \in DOMAIN instances :
          (instances'[i].customDomain.isActive
             /\ instances'[i].customDomain # instances[i].customDomain)
            => /\ instances[i].deletedAt = Null
               /\ instances[i].status = "running"]_vars
  /\ [][(resp'.kind = "addDomain" /\ resp'.code # 200)
          => \A i \in DOMAIN instances :
               instances'[i].customDomain = instances[i].customDomain]_vars
  /\ [][(resp'.kind = "removeDomain" /\ resp'.code = 200)
          => instances'[resp'.id].customDomain = NoDomain]_vars

\* The step is a disable call of an uninterrupted scan that succeeded.
DisableSucceededStep ==
  /\ recon.pc = "instances" /\ recon.insts # <<>>
  /\ scanLog.scans > 0
  /\ calls' = {<<"disable", Head(recon.insts)>>}
  /\ Head(recon.insts) \in scanLog'.succeeded

\* C31: every status an operation stores on an Instance is one the Instance
\* model accepts; in particular a successful disable call of the scan
\* leaves the instance stored with status disabled and the scan goes on
\* with the same user, towards the write of the user's expiry.
C31_DisabledStatusAccepted ==
  [][DisableSucceededStep =>
       /\ ValidStatus("disabled")
       /\ instances'[Head(recon.insts)].status = "disabled"
       /\ recon'.pc = "instances"
       /\ recon'.users = recon.users]_vars

\* Users the scan in progress has selected and not yet left.
StillSelected == {recon.users[k] : k \in 1..Len(recon.users)}

\* C32: a payment or conversion that completed for a user the scan in
\* progress had already selected is not undone by the scan: from then on no
\* step of the scan takes the stored status from active to expired.
C32_PaymentNotUndoneByScan ==
  [][\A u \in StillSelected :
       subscription[u].status = "active"
         => subscription'[u].status # "expired"]_vars

\* C33: in every reachable state an instance with deletedAt set has status
\* deleting, and no step changes an instance that is soft-deleted.
C33_SoftDeletedIsFinal ==
  /\ [](\A i \in InstanceIds :
          instances[i].deletedAt # Null => instances[i].status = "deleting")
  /\ [][\A i \in DOMAIN instances :
          instances[i].deletedAt # Null => instances'[i] = instances[i]]_vars

\* C34: in every reachable state a user whose stored maxInstances is
\* m >= 0 has at most m instances with deletedAt = null and status outside
\* {deleting, error}.
C34_InstancesWithinMax ==
  \A u \in DOMAIN subscription :
    subscription[u].maxInstances >= 0
      => CountLiveNotTerminal(u) <= subscription[u].maxInstances

\* C35: once a subscription has left status trial (to active or expired) no
\* operation returns it to trial: start-trial is rejected for a user whose
\* status is active or expired.
C35_TrialNotRestarted ==
  [][\A u \in DOMAIN subscription :
       subscription[u].status \in {"active", "expired"}
         => subscription'[u].status # "trial"]_vars

\* C36: right after a start-trial request succeeded, for either plan, the
\* subscription is entitled (isSubscriptionActive is true and getMaxInstances
\* is not 0), and a trial stays entitled until its end time.
C36_StartedTrialEntitled ==
  /\ (resp.kind = "start-trial" /\ resp.code = 200)
       => /\ isSubscriptionActive(subscription[resp.user], now)
          /\ getMaxInstances(subscription[resp.user], now) # 0
  /\ \A u \in DOMAIN subscription :
       (subscription[u].status = "trial" /\ now < subscription[u].trialEndsAt)
         => /\ isSubscriptionActive(subscription[u], now)
            /\ getMaxInstances(subscription[u], now) # 0

\* C37: whenever a create request of a user with an active subscription is
\* rejected as 'instance limit reached', the currentCount it reports is at
\* least the maxAllowed it reports.
C37_LimitRejectionCounts ==
  (LimitRejected /\ isSubscriptionActive(subscription[resp.user], now))
    => resp.currentCount >= resp.maxAllowed
====
